---------------------------- MODULE Spec2Model ----------------------------
(***************************************************************************)
(* LocalFiles (src/local.player.js): the URI codec toPath/toUri, the       *)
(* facade canPlayUri / getUriDetails / getStream / getUriList, the probe   *)
(* cache of ffprobe_raw with its clearing timer, and ffprobe_scan.         *)
(*                                                                         *)
(* A JavaScript string is a sequence of one-character strings.  A          *)
(* JavaScript value is a record [type, str]: type "string" carries the     *)
(* characters, type "promise" carries the path the promise was made for,   *)
(* every other type carries <<>>.  Each callback of the single-threaded    *)
(* event loop is one action.                                               *)
(*                                                                         *)
(* smart (line 398) and timeout (line 274) are free identifiers of the     *)
(* file; the host's global object binds them or not, as it binds           *)
(* global.log (line 371) and global.class (line 470).  smart is taken as   *)
(* bound (it is the array class the scanner returns); whether timeout is   *)
(* bound is left open (host_timeout).                                      *)
(***************************************************************************)
EXTENDS Integers, Sequences, FiniteSets, TLC

(* ------------------------------ bounds --------------------------------- *)
\* longest raw path string the codec is applied to
MaxLen == 3
\* number of getUriList() calls
MaxCalls == 2
\* number of getUriDetails() calls that start a probe
MaxDetails == 1

(* --------------------------- program constants ------------------------- *)
\* "the entire cache lives for no more than 1 minute" (ms)
Minute == 60000
\* setTimeout(fn) with no delay argument: Node arms the timer for 1 ms
TimerDelay == 1

(* ------------------------------ strings -------------------------------- *)
Str(s) == [type |-> "string", str |-> s]
Null == [type |-> "null", str |-> <<>>]
Num == [type |-> "number", str |-> <<>>]
EmptyArray == [type |-> "array", str |-> <<>>]

FilePrefix == <<"f", "i", "l", "e", ":">>
FileSlash == FilePrefix \o <<"/">>
Slash == <<"/">>

\* x.substring(0,n) == pre, with n = Len(pre)
StartsWith(s, pre) == Len(s) >= Len(pre) /\ SubSeq(s, 1, Len(pre)) = pre

RECURSIVE TrimLeft(_)
TrimLeft(s) == IF s # <<>> /\ Head(s) = " " THEN TrimLeft(Tail(s)) ELSE s

RECURSIVE TrimRight(_)
TrimRight(s) ==
    IF s # <<>> /\ s[Len(s)] = " " THEN TrimRight(SubSeq(s, 1, Len(s) - 1)) ELSE s

\* cX.trim(x,true): the trimmed string, or a TypeError "if not non-empty string"
trim(x) ==
    IF x.type # "string" \/ TrimRight(TrimLeft(x.str)) = <<>>
    THEN [err |-> "TypeError", str |-> <<>>]
    ELSE [err |-> "", str |-> TrimRight(TrimLeft(x.str))]

\* encodeURIComponent on one character: letters, digits and - _ . ! ~ * ' ( )
\* stay, every other character becomes its %XX escape
EncodeChar(c) ==
    CASE c = "/" -> <<"%", "2", "F">>
      [] c = " " -> <<"%", "2", "0">>
      [] c = ":" -> <<"%", "3", "A">>
      [] c = "%" -> <<"%", "2", "5">>
      [] OTHER -> <<c>>

RECURSIVE encodeURIComponent(_)
encodeURIComponent(s) ==
    IF s = <<>> THEN <<>> ELSE EncodeChar(Head(s)) \o encodeURIComponent(Tail(s))

\* the character of a %XX escape; "" for a % that starts no escape (the strings
\* of this model carry no escape other than the four EncodeChar produces)
DecodeEscape(s) ==
    IF Len(s) < 3 THEN ""
    ELSE CASE SubSeq(s, 1, 3) = <<"%", "2", "F">> -> "/"
           [] SubSeq(s, 1, 3) = <<"%", "2", "0">> -> " "
           [] SubSeq(s, 1, 3) = <<"%", "3", "A">> -> ":"
           [] SubSeq(s, 1, 3) = <<"%", "2", "5">> -> "%"
           [] OTHER -> ""

\* decodeURIComponent: [err, str]; a malformed escape throws URIError
RECURSIVE decodeURIComponent(_)
decodeURIComponent(s) ==
    IF s = <<>> THEN [err |-> "", str |-> <<>>]
    ELSE IF Head(s) = "%"
         THEN IF DecodeEscape(s) = "" THEN [err |-> "URIError", str |-> <<>>]
              ELSE LET rest == decodeURIComponent(SubSeq(s, 4, Len(s)))
                   IN  IF rest.err # "" THEN rest
                       ELSE [err |-> "", str |-> <<DecodeEscape(s)>> \o rest.str]
         ELSE LET rest == decodeURIComponent(Tail(s))
              IN  IF rest.err # "" THEN rest
                  ELSE [err |-> "", str |-> <<Head(s)>> \o rest.str]

\* the segments of a path between its "/" separators, empty ones included
RECURSIVE SplitSlash(_, _)
SplitSlash(s, cur) ==
    IF s = <<>> THEN <<cur>>
    ELSE IF Head(s) = "/" THEN <<cur>> \o SplitSlash(Tail(s), <<>>)
         ELSE SplitSlash(Tail(s), Append(cur, Head(s)))

\* posix normalizeString: drop "" and ".", resolve ".." against the segment before
RECURSIVE ResolveSegs(_, _, _)
ResolveSegs(segs, out, isAbs) ==
    IF segs = <<>> THEN out
    ELSE LET g == Head(segs)
         IN  IF g = <<>> \/ g = <<".">> THEN ResolveSegs(Tail(segs), out, isAbs)
             ELSE IF g = <<".", ".">>
                  THEN IF out # <<>> /\ out[Len(out)] # <<".", ".">>
                       THEN ResolveSegs(Tail(segs), SubSeq(out, 1, Len(out) - 1), isAbs)
                       ELSE IF isAbs THEN ResolveSegs(Tail(segs), out, isAbs)
                            ELSE ResolveSegs(Tail(segs), Append(out, g), isAbs)
                  ELSE ResolveSegs(Tail(segs), Append(out, g), isAbs)

RECURSIVE JoinSlash(_)
JoinSlash(segs) ==
    IF segs = <<>> THEN <<>>
    ELSE IF Len(segs) = 1 THEN Head(segs)
         ELSE Head(segs) \o Slash \o JoinSlash(Tail(segs))

\* fsX.path.normalize (posix)
normalize(s) ==
    IF s = <<>> THEN <<".">>
    ELSE LET isAbs == Head(s) = "/"
             trailing == s[Len(s)] = "/"
             body == JoinSlash(ResolveSegs(SplitSlash(s, <<>>), <<>>, isAbs))
         IN  IF body = <<>>
             THEN IF isAbs THEN Slash ELSE IF trailing THEN <<".", "/">> ELSE <<".">>
             ELSE (IF isAbs THEN Slash ELSE <<>>) \o body
                  \o (IF trailing THEN Slash ELSE <<>>)

(* ------------------------------ URI codec ------------------------------ *)
\* toPath(x): [err, str]
toPath(x) ==
    LET t == trim(x)
    IN  IF t.err # "" THEN t
        ELSE IF StartsWith(t.str, FileSlash)
             THEN LET d == decodeURIComponent(SubSeq(t.str, 6, Len(t.str)))
                  IN  IF d.err # "" THEN d
                      ELSE [err |-> "", str |-> normalize(d.str)]
             ELSE [err |-> "", str |-> normalize(t.str)]

\* toUri(x): [err, str]
toUri(x) ==
    LET t == trim(x)
    IN  IF t.err # "" THEN t
        ELSE IF ~StartsWith(t.str, FileSlash)
             THEN [err |-> "", str |-> FilePrefix \o encodeURIComponent(t.str)]
             ELSE t

(* ------------------------------ the world ------------------------------ *)
\* library roots (settings.paths entries)
R1 == <<"/", "x">>
R2 == <<"/", "y">>
P_song == <<"/", "x", "/", "s", ".", "m", "p", "3">>
P_note == <<"/", "x", "/", "n", ".", "t", "x", "t">>
P_clip == <<"/", "y", "/", "v", ".", "m", "p", "4">>
\* a video file with no audio stream, outside every root
P_mute == <<"/", "m", ".", "m", "p", "4">>
\* a path that is never a file
P_gone == <<"/", "q">>

\* the regular files fsX.find visits under a root
Listing(root) ==
    CASE root = R1 -> {P_song, P_note}
      [] root = R2 -> {P_clip}
      [] OTHER -> {}

AllFiles == {P_song, P_note, P_clip, P_mute}
\* the file the environment removes and puts back
Volatile == {P_song}

\* what the file holds: an audio stream, a container without one, no media
Content(path) ==
    CASE path \in {P_song, P_clip} -> "audio"
      [] path = P_mute -> "silent"
      [] OTHER -> "invalid"

\* the settings a LocalFiles instance is built with
PathConfigs == {<<>>, <<R1>>, <<R1, R2>>, <<R1, R1>>}

\* fsX.exists(path,'file'): a regular file is there
exists(v, files) == v.type = "string" /\ v.str \in files

\* fsX.path.extname: from the last "." of the last segment, "" when there is
\* none or when the segment starts with it
RECURSIVE LastIndexOf(_, _)
LastIndexOf(s, c) ==
    IF s = <<>> THEN 0
    ELSE IF s[Len(s)] = c THEN Len(s) ELSE LastIndexOf(SubSeq(s, 1, Len(s) - 1), c)

extname(path) ==
    LET base == SubSeq(path, LastIndexOf(path, "/") + 1, Len(path))
        dot == LastIndexOf(base, ".")
    IN  IF dot <= 1 \/ base = <<".", ".">> THEN <<>> ELSE SubSeq(base, dot, Len(base))

\* fsX.fileExtType: the type tags of an extension, {} (falsy) when unknown
fileExtType(ext) ==
    CASE ext = <<".", "m", "p", "3">> -> {"audio"}
      [] ext = <<".", "m", "p", "4">> -> {"video"}
      [] ext = <<".", "t", "x", "t">> -> {"text"}
      [] OTHER -> {}

\* isAudioExtension(path,includeVideo): "true", "false" or "undefined"
isAudioExtension(path, includeVideo) ==
    LET ext == extname(path)
    IN  IF ext = <<>> THEN "undefined"
        ELSE LET types == fileExtType(ext)
             IN  IF types = {} THEN "undefined"
                 ELSE IF "audio" \notin types /\ "video" \notin types
                      THEN "false" ELSE "true"

(* ----------------------------- the facade ------------------------------ *)
\* a JavaScript object that is no object (undefined, null, a primitive)
NoObj == [obj |-> FALSE, type |-> "", uri |-> Null, title |-> Null,
          libraryPath |-> Null, contents |-> Null]
Obj(type, uri, title, libraryPath, contents) ==
    [obj |-> TRUE, type |-> type, uri |-> uri, title |-> title,
     libraryPath |-> libraryPath, contents |-> contents]

True == [type |-> "boolean", str |-> <<"1">>]
False == [type |-> "boolean", str |-> <<"0">>]
Undefined == [type |-> "undefined", str |-> <<>>]

\* the outcome of a call: res is "resolve", "reject", "return" or "throw"
Out(res, code, val, rec) == [res |-> res, code |-> code, val |-> val, rec |-> rec]

\* the folder object getUriDetails returns for "/"
FolderRecord ==
    Obj("folder", Str(FileSlash), Str(<<"L", "o", "c", "a", "l">>), Str(Slash), EmptyArray)

\* mutant: the catch codes every error EFAULT, a TypeError too
canPlayUri_catch_all(code) == "EFAULT"

\* canPlayUri's catch: a TypeError is passed on, anything else is coded EFAULT
canPlayUri_catch(code) == IF code = "TypeError" THEN "TypeError" ELSE "EFAULT"

\* canPlayUri(uri) with the regular files `files` on disk
canPlayUri(uri, files) ==
    LET t == trim(uri)
    IN  IF t.err # "" THEN Out("reject", canPlayUri_catch(t.err), Undefined, NoObj)
        ELSE IF ~StartsWith(t.str, FileSlash)
             THEN IF StartsWith(t.str, Slash) /\ exists(Str(t.str), files)
                  THEN Out("resolve", "", True, NoObj)
                  ELSE Out("resolve", "", False, NoObj)
             ELSE LET p == toPath(Str(t.str))
                  IN  IF p.err # ""
                      THEN Out("reject", canPlayUri_catch(p.err), Undefined, NoObj)
                      ELSE IF ~exists(Str(p.str), files)
                           THEN Out("reject", canPlayUri_catch("ENOTFOUND"), Undefined, NoObj)
                           ELSE Out("resolve", "", True, NoObj)

\* mutant: getStream without the fsX.exists re-check of line 192
getStream_unchecked(track, files) ==
    IF ~track.obj \/ track.type # "track"
    THEN Out("throw", "TypeError", Undefined, NoObj)
    ELSE Out("return", "", track.contents, NoObj)

\* getStream(track) with the regular files `files` on disk
getStream(track, files) ==
    IF ~track.obj \/ track.type # "track"
    THEN Out("throw", "TypeError", Undefined, NoObj)
    ELSE IF exists(track.contents, files)
         THEN Out("return", "", track.contents, NoObj)
         ELSE Out("reject", "ESEQ", Undefined, NoObj)

\* the test getUriDetails makes before probing
IsRootPath(path) == path = Slash

\* mutant: the catch without setCode('ESEQ'), the error keeps its own code
getUriDetails_catch_keep(code) == code

\* the code getUriDetails' catch sets on whatever was thrown
getUriDetails_catch(code) == "ESEQ"

\* ffprobe's ffprobe_fail / ffprobe_success on what the external tool gave:
\* "error" (exit code or timeout), or the stdout "streams" (JSON with streams
\* and format), "nostreams" (JSON, streams empty), "garbage" (no JSON)
ffprobe_parse(outcome) ==
    CASE outcome = "error" -> [err |-> "EXEC", rec |-> NoObj]
      [] outcome = "garbage" -> [err |-> "unexpected value", rec |-> NoObj]
      [] outcome = "nostreams" -> [err |-> "not all requested data", rec |-> NoObj]
      [] OTHER -> [err |-> "", rec |-> Obj("", Undefined, Null, Undefined, Undefined)]

\* getUriDetails after `await ffprobe(path)`
getUriDetails_finish(path, outcome) ==
    LET d == ffprobe_parse(outcome)
    IN  IF d.err # "" THEN Out("reject", getUriDetails_catch(d.err), Undefined, NoObj)
        ELSE LET u == toUri(Str(path))
             IN  IF u.err # "" THEN Out("reject", getUriDetails_catch(u.err), Undefined, NoObj)
                 ELSE Out("resolve", "", Undefined,
                          [d.rec EXCEPT !.contents = Str(path), !.uri = Str(u.str)])

\* what the external ffprobe can give for a path: it can always fail (the
\* 100 ms timeout), and gives JSON only for a media file that is there
ExecOutcomes(path, files) ==
    {"error"} \cup
    (IF path \in files /\ Content(path) = "audio" THEN {"streams"} ELSE {}) \cup
    (IF path \in files /\ Content(path) = "silent" THEN {"nostreams"} ELSE {})

(* ------------------------------- inputs -------------------------------- *)
UriInputs ==
    { Null, Num, Str(<<>>),
      Str(FilePrefix \o P_song), Str(P_song), Str(Tail(P_song)),
      Str(FilePrefix \o P_gone), Str(P_gone),
      Str(FileSlash), Str(Slash), Str(FileSlash \o <<"%">>),
      Str(FilePrefix \o encodeURIComponent(P_song)),
      Str(FilePrefix \o P_note), Str(FilePrefix \o P_mute),
      Str(FilePrefix \o <<"/", "x", "/", "/", "s", ".", "m", "p", "3">>) }

\* getStream's arguments: no object, objects not tagged "track", and track
\* objects as getUriDetails' caller tags them
TrackInputs ==
    { NoObj, FolderRecord,
      Obj("", Str(FilePrefix \o P_song), Null, Undefined, Str(P_song)),
      Obj("track", Undefined, Null, Undefined, Undefined) }
    \cup { Obj("track", Str(FilePrefix \o encodeURIComponent(p)), Null, Undefined, Str(p)) :
             p \in {P_song, P_gone} }

(* ------------------------------ the state ------------------------------ *)
VARIABLES
    settings,         \* [paths, includeVideo], fixed at construction
    host_timeout,     \* whether the host binds the free identifier timeout
    fs,               \* the regular files on disk
    uriList,          \* var uriList (line 201): 0 (undefined) or an array of `arrays`
    arrays,           \* the smart.Array objects ffprobe_scan created, by reference
    walks,            \* per scan, per location: the fsX.find walk
    returns,          \* what each getUriList() call returned (0: a fresh [])
    ffprobe_cache,    \* set of [path, json]
    ffprobe_timeout,  \* whether var ffprobe_timeout holds a timer
    timers,           \* the pending clearFFprobeCache timers, each its age in ms
    execs,            \* external ffprobe processes in flight
    nDetails,         \* getUriDetails() calls that reached ffprobe
    tracks,           \* the paths getUriDetails resolved a record for
    last              \* the outcome of the last call or callback

vars == <<settings, host_timeout, fs, uriList, arrays, walks, returns, ffprobe_cache,
          ffprobe_timeout, timers, execs, nDetails, tracks, last>>

Event(op, arg, track, out) ==
    [op |-> op, arg |-> arg, track |-> track, res |-> out.res, code |-> out.code,
     val |-> out.val, rec |-> out.rec, age |-> 0]

NoOut == Out("", "", Undefined, NoObj)

Init ==
    /\ settings \in [paths : PathConfigs, includeVideo : BOOLEAN]
    /\ host_timeout \in BOOLEAN
    /\ fs = AllFiles
    /\ uriList = 0
    /\ arrays = <<>>
    /\ walks = <<>>
    /\ returns = <<>>
    /\ ffprobe_cache = {}
    /\ ffprobe_timeout = FALSE
    /\ timers = <<>>
    /\ execs = <<>>
    /\ nDetails = 0
    /\ tracks = {}
    /\ last = Event("", Undefined, NoObj, NoOut)

Cached(path) == \E e \in ffprobe_cache : e.path = path

RemoveAt(seq, i) == SubSeq(seq, 1, i - 1) \o SubSeq(seq, i + 1, Len(seq))

(* ----------------------------- environment ----------------------------- *)
FsRemove(p) ==
    /\ p \in fs
    /\ fs' = fs \ {p}
    /\ UNCHANGED <<settings, host_timeout, uriList, arrays, walks, returns, ffprobe_cache,
                   ffprobe_timeout, timers, execs, nDetails, tracks, last>>

FsCreate(p) ==
    /\ p \notin fs
    /\ fs' = fs \cup {p}
    /\ UNCHANGED <<settings, host_timeout, uriList, arrays, walks, returns, ffprobe_cache,
                   ffprobe_timeout, timers, execs, nDetails, tracks, last>>

\* one millisecond passes; a due timer fires before more time passes
Tick ==
    /\ timers # <<>>
    /\ \A i \in DOMAIN timers : timers[i] < TimerDelay
    /\ timers' = [i \in DOMAIN timers |-> timers[i] + 1]
    /\ UNCHANGED <<settings, host_timeout, fs, uriList, arrays, walks, returns,
                   ffprobe_cache, ffprobe_timeout, execs, nDetails, tracks, last>>

(* --------------------------- facade actions ---------------------------- *)
CanPlayUri(uri) ==
    /\ last' = Event("canPlayUri", uri, NoObj, canPlayUri(uri, fs))
    /\ UNCHANGED <<settings, host_timeout, fs, uriList, arrays, walks, returns,
                   ffprobe_cache, ffprobe_timeout, timers, execs, nDetails, tracks>>

GetStream(track) ==
    /\ last' = Event("getStream", Undefined, track, getStream(track, fs))
    /\ UNCHANGED <<settings, host_timeout, fs, uriList, arrays, walks, returns,
                   ffprobe_cache, ffprobe_timeout, timers, execs, nDetails, tracks>>

\* getUriDetails(uri) up to its await: it settles at once, or ffprobe(path)
\* (the function of line 322, which hides the const of line 26) starts the
\* external tool
GetUriDetails(uri) ==
    LET p == toPath(uri)
    IN  IF p.err # ""
        THEN /\ last' = Event("getUriDetails", uri, NoObj,
                              Out("reject", getUriDetails_catch(p.err), Undefined, NoObj))
             /\ UNCHANGED <<settings, host_timeout, fs, uriList, arrays, walks, returns,
                            ffprobe_cache, ffprobe_timeout, timers, execs, nDetails, tracks>>
        ELSE IF IsRootPath(p.str)
             THEN /\ last' = Event("getUriDetails", uri, NoObj,
                                   Out("resolve", "", Undefined, FolderRecord))
                  /\ UNCHANGED <<settings, host_timeout, fs, uriList, arrays, walks,
                                 returns, ffprobe_cache, ffprobe_timeout, timers, execs,
                                 nDetails, tracks>>
             ELSE /\ nDetails < MaxDetails
                  /\ nDetails' = nDetails + 1
                  /\ execs' = Append(execs, [kind |-> "full", path |-> p.str, uri |-> uri,
                                             hit |-> Cached(p.str)])
                  /\ UNCHANGED <<settings, host_timeout, fs, uriList, arrays, walks,
                                 returns, ffprobe_cache, ffprobe_timeout, timers, tracks,
                                 last>>

\* the external tool of a getUriDetails call ends: ffprobe_fail or
\* ffprobe_success (line 341), then the rest of getUriDetails
GetUriDetailsSettle(i, outcome) ==
    /\ i \in DOMAIN execs
    /\ execs[i].kind = "full"
    /\ outcome \in ExecOutcomes(execs[i].path, fs)
    /\ LET out == getUriDetails_finish(execs[i].path, outcome)
       IN  /\ last' = Event("getUriDetails", execs[i].uri, NoObj, out)
           /\ tracks' = IF out.res = "resolve" THEN tracks \cup {execs[i].path} ELSE tracks
    /\ execs' = RemoveAt(execs, i)
    /\ UNCHANGED <<settings, host_timeout, fs, uriList, arrays, walks, returns,
                   ffprobe_cache, ffprobe_timeout, timers, nDetails>>

(* ------------------------------ getUriList ----------------------------- *)
\* mutant: the memo is never found set, every call scans again
HasUriList_never(u) == FALSE

\* if(uriList): the memo holds a collection
HasUriList(u) == u # 0

\* ffprobe_scan's locations.forEach: one fsX.find walk per location, each with
\* its whole listing still to visit
StartWalks(locations) ==
    [i \in DOMAIN locations |-> [state |-> "walking", todo |-> Listing(locations[i])]]

GetUriList ==
    /\ Len(returns) < MaxCalls
    /\ IF HasUriList(uriList)
       THEN /\ returns' = Append(returns, uriList)
            /\ UNCHANGED <<uriList, arrays, walks>>
       ELSE IF Len(settings.paths) > 0
            THEN /\ arrays' = Append(arrays, <<>>)
                 /\ walks' = Append(walks, StartWalks(settings.paths))
                 /\ uriList' = Len(arrays) + 1
                 /\ returns' = Append(returns, Len(arrays) + 1)
            ELSE /\ returns' = Append(returns, 0)
                 /\ UNCHANGED <<uriList, arrays, walks>>
    /\ UNCHANGED <<settings, host_timeout, fs, ffprobe_cache, ffprobe_timeout, timers,
                   execs, nDetails, tracks, last>>

(* ------------------------------- the scan ------------------------------ *)
Promise(path) == [type |-> "promise", str |-> path]

\* mutant: unshift in place of push
PushFront(arr, e) == <<e>> \o arr

\* uriList.push(path)
Push(arr, e) == Append(arr, e)

\* addAudioFile(path), the callback of the walk of location i of scan k.
\* ffprobe_supported(path) returns a promise, which line 407 tests and line 408
\* pushes; nothing in the file reads what the promise settles to.
addAudioFile(k, i, f) ==
    /\ k \in DOMAIN walks
    /\ i \in DOMAIN walks[k]
    /\ walks[k][i].state = "walking"
    /\ f \in walks[k][i].todo
    /\ walks' = [walks EXCEPT ![k][i].todo = @ \ {f}]
    /\ LET p == toPath(Str(f))
       IN  IF isAudioExtension(f, settings.includeVideo) = "false"
           THEN UNCHANGED <<arrays, execs>>
           ELSE IF p.err # ""
                \* ffprobe_supported returns Promise.reject(err)
                THEN /\ arrays' = [arrays EXCEPT ![k] = Push(@, Promise(f))]
                     /\ UNCHANGED execs
                ELSE IF ~host_timeout
                     \* line 274 reads timeout: ReferenceError, caught at line 411
                     THEN UNCHANGED <<arrays, execs>>
                     ELSE /\ arrays' = [arrays EXCEPT ![k] = Push(@, Promise(p.str))]
                          /\ execs' = IF Cached(p.str) THEN execs
                                      ELSE Append(execs, [kind |-> "raw", path |-> p.str,
                                                          uri |-> Undefined, hit |-> FALSE])
    /\ UNCHANGED <<settings, host_timeout, fs, uriList, returns, ffprobe_cache,
                   ffprobe_timeout, timers, nDetails, tracks, last>>

\* the walk of a location has visited every file
find_done(k, i) ==
    /\ k \in DOMAIN walks
    /\ i \in DOMAIN walks[k]
    /\ walks[k][i].state = "walking"
    /\ walks[k][i].todo = {}
    /\ walks' = [walks EXCEPT ![k][i].state = "done"]
    /\ UNCHANGED <<settings, host_timeout, fs, uriList, arrays, returns, ffprobe_cache,
                   ffprobe_timeout, timers, execs, nDetails, tracks, last>>

\* find_failed: the location cannot be walked; the other walks go on
find_failed(k, i) ==
    /\ k \in DOMAIN walks
    /\ i \in DOMAIN walks[k]
    /\ walks[k][i].state = "walking"
    /\ walks[k][i].todo = Listing(settings.paths[i])
    /\ walks' = [walks EXCEPT ![k][i].state = "failed"]
    /\ UNCHANGED <<settings, host_timeout, fs, uriList, arrays, returns, ffprobe_cache,
                   ffprobe_timeout, timers, execs, nDetails, tracks, last>>

(* ---------------------------- the probe cache -------------------------- *)
\* mutant: the test of ffprobe_timeout is left out, every insert arms a timer
NoTimerHeld_always(t) == TRUE

\* if(!ffprobe_timeout): no timer is held
NoTimerHeld(t) == ~t

CachePut(cache, path, json) ==
    {e \in cache : e.path # path} \cup {[path |-> path, json |-> json]}

\* ffprobe_success of ffprobe_raw: the external tool of a support check gave JSON
ffprobe_success(i, json) ==
    /\ i \in DOMAIN execs
    /\ execs[i].kind = "raw"
    /\ json \in ExecOutcomes(execs[i].path, fs) \ {"error"}
    /\ ffprobe_cache' = CachePut(ffprobe_cache, execs[i].path, json)
    /\ IF NoTimerHeld(ffprobe_timeout)
       THEN /\ ffprobe_timeout' = TRUE
            /\ timers' = Append(timers, 0)
       ELSE UNCHANGED <<ffprobe_timeout, timers>>
    /\ execs' = RemoveAt(execs, i)
    /\ UNCHANGED <<settings, host_timeout, fs, uriList, arrays, walks, returns, nDetails,
                   tracks, last>>

\* the external tool of a support check failed: err=>undefined (line 277)
ffprobe_raw_failed(i) ==
    /\ i \in DOMAIN execs
    /\ execs[i].kind = "raw"
    /\ execs' = RemoveAt(execs, i)
    /\ UNCHANGED <<settings, host_timeout, fs, uriList, arrays, walks, returns,
                   ffprobe_cache, ffprobe_timeout, timers, nDetails, tracks, last>>

\* clearFFprobeCache: a timer that is due fires
clearFFprobeCache(i) ==
    /\ i \in DOMAIN timers
    /\ timers[i] >= TimerDelay
    /\ ffprobe_cache' = {}
    /\ ffprobe_timeout' = FALSE
    /\ timers' = RemoveAt(timers, i)
    /\ last' = [Event("clearFFprobeCache", Undefined, NoObj, NoOut) EXCEPT !.age = timers[i]]
    /\ UNCHANGED <<settings, host_timeout, fs, uriList, arrays, walks, returns, execs,
                   nDetails, tracks>>

(* --------------------------- the specifications ------------------------ *)
\* the URIs asked of getUriDetails while a scan runs
ScanUriInputs == {Str(FilePrefix \o P_song), Str(FileSlash), Str(P_clip)}

\* The scanner, the probe cache and the two facade calls that share state with
\* them (getUriList, getUriDetails).
Next ==
    \/ Tick
    \/ \E u \in ScanUriInputs : GetUriDetails(u)
    \/ \E i \in DOMAIN execs : \E o \in {"error", "streams", "nostreams"} :
          GetUriDetailsSettle(i, o)
    \/ GetUriList
    \/ \E k \in DOMAIN walks : \E i \in DOMAIN walks[k] : \E f \in AllFiles :
          addAudioFile(k, i, f)
    \/ \E k \in DOMAIN walks : \E i \in DOMAIN walks[k] : find_done(k, i)
    \/ \E k \in DOMAIN walks : \E i \in DOMAIN walks[k] : find_failed(k, i)
    \/ \E i \in DOMAIN execs : \E j \in {"streams", "nostreams"} : ffprobe_success(i, j)
    \/ \E i \in DOMAIN execs : ffprobe_raw_failed(i)
    \/ \E i \in DOMAIN timers : clearFFprobeCache(i)

Spec == Init /\ [][Next]_vars

\* The facade calls that read the disk, with files removed and put back between
\* them; canPlayUri and getStream read no state of the scanner or the cache.
FacadeNext ==
    \/ \E p \in Volatile : FsRemove(p)
    \/ \E p \in Volatile : FsCreate(p)
    \/ \E u \in UriInputs : CanPlayUri(u)
    \/ \E t \in TrackInputs : GetStream(t)
    \/ \E u \in UriInputs : GetUriDetails(u)
    \/ \E i \in DOMAIN execs : \E o \in {"error", "streams", "nostreams"} :
          GetUriDetailsSettle(i, o)

FacadeSpec == Init /\ [][FacadeNext]_vars

(* ------------------------------ the codec ------------------------------ *)
PathChars == {"/", "m", ".", " "}

\* every string of 1..n path characters
Strings(n) == UNION {[1..k -> PathChars] : k \in 1..n}

\* the path strings given to toUri: they carry no "file:" prefix
RawPaths == Strings(MaxLen)

\* percent-encoding of a path that keeps its separators
RECURSIVE EncodePath(_)
EncodePath(s) ==
    IF s = <<>> THEN <<>>
    ELSE (IF Head(s) = "/" THEN Slash ELSE EncodeChar(Head(s))) \o EncodePath(Tail(s))

\* the normalized absolute paths among RawPaths
AbsolutePaths == {q \in RawPaths : Head(q) = "/" /\ normalize(q) = q /\ TrimRight(q) = q}

\* "file:" followed by a percent-encoded absolute path, separators kept or
\* escaped (the form toUri itself writes)
ValidUris ==
    {FilePrefix \o EncodePath(q) : q \in AbsolutePaths}
    \cup {FilePrefix \o encodeURIComponent(q) : q \in AbsolutePaths}

CodecInit ==
    /\ settings = [paths |-> <<>>, includeVideo |-> FALSE]
    /\ host_timeout = FALSE
    /\ fs = AllFiles
    /\ uriList = 0
    /\ arrays = <<>>
    /\ walks = <<>>
    /\ returns = <<>>
    /\ ffprobe_cache = {}
    /\ ffprobe_timeout = FALSE
    /\ timers = <<>>
    /\ execs = <<>>
    /\ nDetails = 0
    /\ tracks = {}
    /\ \E x \in RawPaths \cup ValidUris : last = Event("input", Str(x), NoObj, NoOut)

\* toUri applied to the input, or to what toPath made of it
ApplyToUri ==
    /\ last.op \in {"input", "toPath"}
    /\ last.code = ""
    /\ LET r == toUri(IF last.op = "input" THEN last.arg ELSE last.val)
       IN  last' = Event(IF last.op = "input" THEN "toUri" ELSE "toUri_toPath", last.arg,
                         NoObj, Out("return", r.err, Str(r.str), NoObj))
    /\ UNCHANGED <<settings, host_timeout, fs, uriList, arrays, walks, returns,
                   ffprobe_cache, ffprobe_timeout, timers, execs, nDetails, tracks>>

\* toPath applied to the input, or to what toUri made of it
ApplyToPath ==
    /\ last.op \in {"input", "toUri"}
    /\ last.code = ""
    /\ LET r == toPath(IF last.op = "input" THEN last.arg ELSE last.val)
       IN  last' = Event(IF last.op = "input" THEN "toPath" ELSE "toPath_toUri", last.arg,
                         NoObj, Out("return", r.err, Str(r.str), NoObj))
    /\ UNCHANGED <<settings, host_timeout, fs, uriList, arrays, walks, returns,
                   ffprobe_cache, ffprobe_timeout, timers, execs, nDetails, tracks>>

CodecNext == ApplyToUri \/ ApplyToPath

CodecSpec == CodecInit /\ [][CodecNext]_vars

(* ------------------------------ helpers -------------------------------- *)
IsPrefix(a, b) == Len(a) <= Len(b) /\ SubSeq(b, 1, Len(a)) = a

\* every walk of scan k is over and no support check of it is in flight
ScanSettled(k) ==
    /\ \A i \in DOMAIN walks[k] : walks[k][i].state = "done"
    /\ \A i \in DOMAIN execs : execs[i].kind # "raw"

\* the files the walks of the configured locations visit
VisitedFiles == UNION {Listing(settings.paths[i]) : i \in DOMAIN settings.paths}

\* the extension is classified as video and not audio
IsVideoOnly(path) ==
    "video" \in fileExtType(extname(path)) /\ "audio" \notin fileExtType(extname(path))

(* ------------------------------- claims -------------------------------- *)
\* C7: toPath and toUri are inverse to each other: toPath(toUri(p)) is
\* normalize(p) for every non-empty path string p without a "file:" prefix, and
\* toUri(toPath(u)) is u for every valid URI u.
C7_RoundTrip ==
    /\ (last.op = "toPath_toUri" /\ last.arg.str \in RawPaths)
          => (last.code = "" /\ last.val = Str(normalize(last.arg.str)))
    /\ (last.op = "toUri_toPath" /\ last.arg.str \in ValidUris)
          => (last.code = "" /\ last.val = last.arg)

\* C1: with settings.paths non-empty, the scanner is started exactly once, on
\* the first getUriList() call, and every call returns the collection the first
\* call returned.
C1_ScanStartedOnce ==
    Len(settings.paths) > 0 =>
        /\ Len(arrays) = (IF returns = <<>> THEN 0 ELSE 1)
        /\ Len(walks) = Len(arrays)
        /\ \A n \in DOMAIN returns : returns[n] = returns[1] /\ returns[n] = 1

\* a second call made after a scan callback appended to the collection
C1_Witness ==
    /\ Len(returns) >= 2
    /\ Len(arrays) >= 1
    /\ Len(arrays[1]) >= 1

\* C2: once every walk of a scan is over and no support check is in flight, the
\* collection holds exactly one entry, the "file:" URI string, for every visited
\* file that the extension filter kept and the support check confirmed, and no
\* other entry; a root with one .mp3 (audio stream) and one .txt ends with
\* exactly the URI of the .mp3.
C2_ScanResult ==
    \A k \in DOMAIN arrays :
        ScanSettled(k) =>
            /\ \A n \in DOMAIN arrays[k] :
                  /\ arrays[k][n].type = "string"
                  /\ \E f \in VisitedFiles :
                        /\ arrays[k][n].str = FilePrefix \o f
                        /\ isAudioExtension(f, settings.includeVideo) # "false"
                        /\ Content(f) = "audio"
            /\ (settings.paths = <<R1>> /\ [path |-> P_song, json |-> "streams"] \in ffprobe_cache)
                  => arrays[k] = <<Str(FilePrefix \o P_song)>>

\* C3: scan returns its collection before any file is visited, and from then
\* on the collection only grows at its end: what a read sees is a prefix of
\* what any later read sees.
C3_AppendOnly ==
    [][ /\ \A k \in DOMAIN arrays :
              k \in DOMAIN arrays' /\ IsPrefix(arrays[k], arrays'[k])
        /\ Len(arrays') > Len(arrays) =>
              /\ arrays'[Len(arrays')] = <<>>
              /\ returns' = Append(returns, Len(arrays'))
              /\ \A i \in DOMAIN settings.paths :
                    /\ walks'[Len(arrays')][i].state = "walking"
                    /\ walks'[Len(arrays')][i].todo = Listing(settings.paths[i]) ]_vars

\* the returned collection has received two entries since it was returned
C3_Witness ==
    /\ returns # <<>>
    /\ returns[1] # 0
    /\ Len(arrays[returns[1]]) >= 2

C6_GetStream ==
    [][ (last'.op = "getStream" /\ last' # last) =>
          LET t == last'.track
          IN  IF t.obj /\ t.type = "track"
              THEN IF t.contents.type = "string" /\ t.contents.str \in fs
                   THEN last'.res = "return" /\ last'.val = t.contents
                   ELSE last'.res = "reject" /\ last'.code = "ESEQ"
              ELSE last'.res = "throw" /\ last'.code = "TypeError" ]_vars

\* getUriDetails resolved a record for the file, the file was removed, and
\* getStream of the tagged record is rejected with ESEQ
C6_Witness ==
    /\ P_song \in tracks
    /\ P_song \notin fs
    /\ last.op = "getStream"
    /\ last.track.type = "track"
    /\ last.track.contents = Str(P_song)
    /\ last.res = "reject"
    /\ last.code = "ESEQ"

\* C8: with includeVideo false a file whose extension is video and not audio is
\* rejected by the extension filter: no probe is started for it and no entry
\* for it is appended to a collection.
C8_VideoNeedsFlag ==
    ~settings.includeVideo =>
        /\ \A i \in DOMAIN execs : execs[i].kind = "raw" => ~IsVideoOnly(execs[i].path)
        /\ \A k \in DOMAIN arrays : \A n \in DOMAIN arrays[k] :
              ~IsVideoOnly(arrays[k][n].str)

\* C9: the cache is cleared in full exactly when one minute has passed since the
\* first entry of the batch was inserted.
C9_ClearedAfterMinute ==
    last.op = "clearFFprobeCache" => last.age = Minute

\* C10: while the raw output of a path is in the probe cache, no probe query for
\* that path, support check or full probe, starts the external tool.
C10_CachedNotProbed ==
    \A i \in DOMAIN execs : ~execs[i].hit

\* C11: at most one cache-clearing timer is pending at any time: an insert into
\* the cache arms a timer only when none is pending, and an insert made while
\* one is pending leaves that timer as it is.
C11_SingleTimer ==
    [][ /\ Len(timers') <= 1
        /\ ffprobe_timeout' = (timers' # <<>>)
        /\ Len(timers') > Len(timers) => (timers = <<>> /\ ~ffprobe_timeout)
        /\ \A i \in DOMAIN execs :
              ( /\ execs[i].kind = "raw"
                /\ execs' = RemoveAt(execs, i)
                /\ \E e \in ffprobe_cache' : e.path = execs[i].path
                /\ timers # <<>> )
              => timers' = timers ]_vars

\* two inserts of one window: the cache holds two entries under one timer
C11_Witness ==
    /\ Cardinality(ffprobe_cache) >= 2
    /\ Len(timers) = 1
    /\ ffprobe_timeout

=============================================================================
